---- MODULE Spec2Model ----
(***************************************************************************)
(* A model of the garagesale sales-api: the product store operations       *)
(* (package product), the HTTP handlers and route table (package           *)
(* handlers), the request wrapper of package web, and the run loop of      *)
(* cmd/sales-api with its shutdown channel.                                *)
(***************************************************************************)
EXTENDS Integers, Sequences, FiniteSets, TLC

VARIABLES
    products,      \* table products: product_id -> row
    sales,         \* table sales: a set of rows
    last,          \* the request served most recently: [op, status, invoked, changed]
    shutdown,      \* main's channel shutdown (capacity 1): the signals buffered
    serverErrors,  \* main's channel serverErrors (capacity 1)
    run,           \* main's run: [pc, sig, elapsed, result]
    api,           \* the http.Server: "listening", "closed" or "failed"
    workers,       \* the goroutine serving each connection: [pc, req, sent, conn]
    notified,      \* the number of signals the OS has delivered
    calls          \* the call of package product each goroutine is in: [pc, ...]

svars == <<shutdown, serverErrors, run, api, workers, notified, calls>>
vars == <<products, sales, last, shutdown, serverErrors, run, api, workers, notified,
          calls>>

(***************************************************************************)
(* Bounds of the model and the input sets the requests are drawn from.     *)
(***************************************************************************)
MaxSales == 2
MaxTime == 1
MaxWorkers == 2
MaxSignals == 1

UUIDs == {"id1", "id2"}
Malformed == {"bad"}
IdStrings == UUIDs \cup Malformed

Names == {"a", "b"}
Costs == {1, 2}
Quantities == {1, 2}
SaleQuantities == {1, 2}
SalePaid == {0, 3}
Times == 0..MaxTime

(***************************************************************************)
(* Package auth: claims and roles.                                         *)
(***************************************************************************)
RoleAdmin == "ADMIN"
RoleUser == "USER"

Principals ==
    { [Subject |-> "u1", Roles |-> {RoleUser}],
      [Subject |-> "u2", Roles |-> {RoleUser}],
      [Subject |-> "adm", Roles |-> {RoleAdmin, RoleUser}] }

HasRole(claims, role) == role \in claims.Roles

(***************************************************************************)
(* Package product: the sentinel errors.                                   *)
(***************************************************************************)
ErrNil == "nil"
ErrNotFound == "product not found"
ErrInvalidID == "id provided was not a valid UUID"
ErrForbidden == "attempted action is not allowed"

\* uuid.Parse(id) returns a nil error
uuidParse(id) == id \in UUIDs

\* The zero value of the Product struct.
ZeroProduct ==
    [ID |-> "", Name |-> "", Cost |-> 0, Quantity |-> 0, Sold |-> 0,
     Revenue |-> 0, UserID |-> "", DateCreated |-> 0, DateUpdated |-> 0]

(***************************************************************************)
(* The SELECT of List and Retrieve:                                        *)
(*   FROM products AS p LEFT JOIN sales AS s ON p.product_id = s.product_id*)
(*   GROUP BY p.product_id, with COALESCE(SUM(..), 0).                     *)
(* A joined row carries the product id and <<sale>>, or <<>> for the NULL  *)
(* sale of a product without sales.                                        *)
(***************************************************************************)
LeftJoin(P, S) ==
    UNION { LET m == {s \in S : pid = s.product_id}
            IN  IF m = {} THEN {[p |-> pid, s |-> <<>>]}
                ELSE {[p |-> pid, s |-> <<x>>] : x \in m}
          : pid \in DOMAIN P }

RECURSIVE SumCol(_, _)
\* SQL SUM(s.col) over a group of joined rows: NULL values are skipped and the
\* sum of no value is NULL (<<>>).
SumCol(rows, col) ==
    IF rows = {} THEN <<>>
    ELSE LET r == CHOOSE x \in rows : TRUE
             rest == SumCol(rows \ {r}, col)
         IN  IF r.s = <<>> THEN rest
             ELSE IF rest = <<>> THEN <<r.s[1][col]>>
             ELSE <<rest[1] + r.s[1][col]>>

COALESCE(v, d) == IF v = <<>> THEN d ELSE v[1]

\* ScanGroup with the two sums scanned into each other's field.
ScanGroup_SumsSwapped(P, pid, g) ==
    [ID |-> pid, Name |-> P[pid].name, Cost |-> P[pid].cost,
     Quantity |-> P[pid].quantity,
     Sold |-> COALESCE(SumCol(g, "paid"), 0),
     Revenue |-> COALESCE(SumCol(g, "quantity"), 0),
     UserID |-> "",
     DateCreated |-> P[pid].date_created,
     DateUpdated |-> P[pid].date_updated]

\* One group of the SELECT's GROUP BY p.product_id, scanned into a Product
\* struct. The select list has no user_id column, so UserID keeps its zero
\* value.
ScanGroup(P, pid, g) ==
    [ID |-> pid, Name |-> P[pid].name, Cost |-> P[pid].cost,
     Quantity |-> P[pid].quantity,
     Sold |-> COALESCE(SumCol(g, "quantity"), 0),
     Revenue |-> COALESCE(SumCol(g, "paid"), 0),
     UserID |-> ZeroProduct.UserID,
     DateCreated |-> P[pid].date_created,
     DateUpdated |-> P[pid].date_updated]

\* The joined rows grouped by product id.
GroupBy(P, rows) == {ScanGroup(P, pid, {r \in rows : r.p = pid}) : pid \in {r.p : r \in rows}}

\* The rows the SELECT yields: the joined rows that pass its WHERE clause
\* (where: the product ids it admits), grouped and scanned.
SelectProducts(P, S, where) == GroupBy(P, {r \in LeftJoin(P, S) : r.p \in where})

\* product.List
List(P, S) ==
    [err |-> ErrNil, list |-> SelectProducts(P, S, DOMAIN P), stmts |-> <<"SELECT">>]

\* GetContext with sql.ErrNoRows not mapped to ErrNotFound but dropped.
GetContext_NoRowsIgnored(rows) ==
    IF rows = {}
    THEN [err |-> "nil", p |-> [ID |-> "", Name |-> "", Cost |-> 0, Quantity |-> 0,
                                Sold |-> 0, Revenue |-> 0, UserID |-> "",
                                DateCreated |-> 0, DateUpdated |-> 0],
          stmts |-> <<"SELECT">>]
    ELSE [err |-> "nil", p |-> CHOOSE r \in rows : TRUE, stmts |-> <<"SELECT">>]

\* db.GetContext: sql.ErrNoRows, mapped to ErrNotFound, when the SELECT yields
\* no row.
GetContext(rows) ==
    IF rows = {}
    THEN [err |-> ErrNotFound, p |-> ZeroProduct, stmts |-> <<"SELECT">>]
    ELSE [err |-> ErrNil, p |-> CHOOSE r \in rows : TRUE, stmts |-> <<"SELECT">>]

\* product.Retrieve
Retrieve(P, S, id) ==
    IF ~uuidParse(id)
    THEN [err |-> ErrInvalidID, p |-> ZeroProduct, stmts |-> <<>>]
    ELSE GetContext(SelectProducts(P, S, {id}))

\* Create with cost and quantity inserted into each other's column.
Create_ColumnsSwapped(P, user, np, now, newID) ==
    LET p == [ID |-> newID, Name |-> np.Name, Cost |-> np.Cost,
              Quantity |-> np.Quantity, Sold |-> 0, Revenue |-> 0,
              UserID |-> user.Subject, DateCreated |-> now, DateUpdated |-> now]
        row == [name |-> p.Name, cost |-> p.Quantity, quantity |-> p.Cost,
                user_id |-> p.UserID, date_created |-> p.DateCreated,
                date_updated |-> p.DateUpdated]
    IN  [err |-> "nil", p |-> p,
         products |-> [x \in DOMAIN P \cup {newID} |-> IF x = newID THEN row ELSE P[x]],
         stmts |-> <<"INSERT">>]

\* product.Create; newID is the value of uuid.New().String()
Create(P, user, np, now, newID) ==
    LET p == [ZeroProduct EXCEPT !.ID = newID, !.Name = np.Name, !.Cost = np.Cost,
                                 !.Quantity = np.Quantity, !.UserID = user.Subject,
                                 !.DateCreated = now, !.DateUpdated = now]
        row == [name |-> p.Name, cost |-> p.Cost, quantity |-> p.Quantity,
                user_id |-> p.UserID, date_created |-> p.DateCreated,
                date_updated |-> p.DateUpdated]
    IN  [err |-> ErrNil, p |-> p,
         products |-> [x \in DOMAIN P \cup {newID} |-> IF x = newID THEN row ELSE P[x]],
         stmts |-> <<"INSERT">>]

\* The UPDATE statement of product.Update: every row WHERE product_id = id.
ExecUpdate(P, id, name, cost, quantity, updated) ==
    [x \in DOMAIN P |->
        IF x = id
        THEN [P[x] EXCEPT !.name = name, !.cost = cost, !.quantity = quantity,
                          !.date_updated = updated]
        ELSE P[x]]

\* UpdateForbidden with the comparison of the owner inverted.
UpdateForbidden_Inverted(user, p) == ~HasRole(user, "ADMIN") /\ p.UserID = user.Subject

\* The authorisation check of product.Update on the product Retrieve returned.
UpdateForbidden(user, p) == ~HasRole(user, RoleAdmin) /\ p.UserID # user.Subject

\* UpdateMerge that writes the zero value for a field the update leaves out.
UpdateMerge_AbsentZeroed(p, update, now) ==
    [p EXCEPT !.Name = IF update.Name # <<>> THEN update.Name[1] ELSE "",
              !.Cost = IF update.Cost # <<>> THEN update.Cost[1] ELSE 0,
              !.Quantity = IF update.Quantity # <<>> THEN update.Quantity[1] ELSE 0,
              !.DateUpdated = now]

\* The merge of product.Update: a field of the update is <<>> (nil) or <<value>>.
UpdateMerge(p, update, now) ==
    [p EXCEPT !.Name = IF update.Name # <<>> THEN update.Name[1] ELSE @,
              !.Cost = IF update.Cost # <<>> THEN update.Cost[1] ELSE @,
              !.Quantity = IF update.Quantity # <<>> THEN update.Quantity[1] ELSE @,
              !.DateUpdated = now]

\* product.Update from the product p it loaded: the merged fields are written.
UpdateExec(P, id, p, stmts) ==
    [err |-> ErrNil,
     products |-> ExecUpdate(P, id, p.Name, p.Cost, p.Quantity, p.DateUpdated),
     stmts |-> stmts \o <<"UPDATE">>]

\* Update with the authorisation check made before Retrieve's error is looked at.
UpdateLoaded_ForbiddenFirst(P, user, id, update, now, r) ==
    IF ~HasRole(user, "ADMIN") /\ r.p.UserID # user.Subject
    THEN [err |-> "attempted action is not allowed", products |-> P, stmts |-> r.stmts]
    ELSE IF r.err # "nil"
    THEN [err |-> r.err, products |-> P, stmts |-> r.stmts]
    ELSE [err |-> "nil",
          products |-> [x \in DOMAIN P |->
              IF x = id
              THEN [P[x] EXCEPT
                      !.name = IF update.Name # <<>> THEN update.Name[1] ELSE r.p.Name,
                      !.cost = IF update.Cost # <<>> THEN update.Cost[1] ELSE r.p.Cost,
                      !.quantity = IF update.Quantity # <<>> THEN update.Quantity[1]
                                   ELSE r.p.Quantity,
                      !.date_updated = now]
              ELSE P[x]],
          stmts |-> r.stmts \o <<"UPDATE">>]

\* product.Update after its call of Retrieve, which returned r.
UpdateLoaded(P, user, id, update, now, r) ==
    IF r.err # ErrNil
    THEN [err |-> r.err, products |-> P, stmts |-> r.stmts]
    ELSE IF UpdateForbidden(user, r.p)
    THEN [err |-> ErrForbidden, products |-> P, stmts |-> r.stmts]
    ELSE UpdateExec(P, id, UpdateMerge(r.p, update, now), r.stmts)

\* product.Update
Update(P, S, user, id, update, now) ==
    UpdateLoaded(P, user, id, update, now, Retrieve(P, S, id))

\* Delete without the uuid.Parse check.
Delete_Unparsed(P, id) ==
    [err |-> "nil", products |-> [x \in DOMAIN P \ {id} |-> P[x]], stmts |-> <<"DELETE">>]

\* product.Delete
Delete(P, id) ==
    IF ~uuidParse(id)
    THEN [err |-> ErrInvalidID, products |-> P, stmts |-> <<>>]
    ELSE [err |-> ErrNil, products |-> [x \in DOMAIN P \ {id} |-> P[x]],
          stmts |-> <<"DELETE">>]

\* product.AddSale: inserts a sale row linked to productID, which is not looked up.
AddSale(S, ns, productID, now, newID) ==
    LET s == [sale_id |-> newID, product_id |-> productID, quantity |-> ns.Quantity,
              paid |-> ns.Paid, date_created |-> now]
    IN  [err |-> ErrNil, sale |-> s, sales |-> S \cup {s}, stmts |-> <<"INSERT">>]

\* product.ListSales
ListSales(S, productID) ==
    [err |-> ErrNil, list |-> {s \in S : s.product_id = productID}, stmts |-> <<"SELECT">>]

(***************************************************************************)
(* Package web: error values. An error is its cause's kind, the status a   *)
(* request error carries, and the messages wrapped around the cause        *)
(* (outermost first).                                                      *)
(***************************************************************************)
StatusOK == 200
StatusCreated == 201
StatusNoContent == 204
StatusBadRequest == 400
StatusUnauthorized == 401
StatusForbidden == 403
StatusNotFound == 404
StatusInternalServerError == 500

NilError == [kind |-> "nil", status |-> 0, text |-> <<>>]
PlainError(msg) == [kind |-> "plain", status |-> 0, text |-> <<msg>>]
NewRequestError(msg, status) == [kind |-> "Error", status |-> status, text |-> <<msg>>]
NewShutdownError(msg) == [kind |-> "shutdown", status |-> 0, text |-> <<msg>>]
Wrap(err, msg) == [err EXCEPT !.text = <<msg>> \o @]
IsShutdown(err) == err.kind = "shutdown"

\* What a handler chain leaves behind: the error it returns, the status and body
\* written with web.Respond (status 0: nothing written), the tables, the
\* statements issued to the store, and whether the route's handler was invoked.
Result(err, status, body, P, S, stmts) ==
    [err |-> err, status |-> status, body |-> body, products |-> P, sales |-> S,
     stmts |-> stmts, invoked |-> FALSE]

\* web.Respond
Respond(val, statusCode, P, S, stmts) == Result(NilError, statusCode, val, P, S, stmts)

\* RespondError that answers an unclassified error with the error's own text.
RespondError_LeaksText(err) ==
    IF err.kind = "Error"
    THEN [status |-> err.status, body |-> err.text[Len(err.text)]]
    ELSE [status |-> 500, body |-> err.text[1]]

\* web.RespondError
RespondError(err) ==
    IF err.kind = "Error"
    THEN [status |-> err.status, body |-> err.text[Len(err.text)]]
    ELSE [status |-> StatusInternalServerError, body |-> "Internal Server Error"]

(***************************************************************************)
(* Package handlers: a request is [token, id, np, update, ns, now, newID,  *)
(* claimsOk]; ctx is the request context, ctx.claims = <<>> when no claims *)
(* are stored under auth.Key and <<claims>> otherwise.                     *)
(***************************************************************************)
\* Check.Health
Check_Health(ctx, r, P, S) ==
    Respond("OK", StatusOK, P, S, <<"SELECT">>)

\* Users.Token
Users_Token(ctx, r, P, S) ==
    IF r.basic = <<>>
    THEN Result(NewRequestError("must provide email and password in Basic auth",
                                StatusUnauthorized), 0, "", P, S, <<>>)
    ELSE IF r.basic[1] \notin {c.Subject : c \in Principals}
    THEN Result(NewRequestError("authentication failed", StatusUnauthorized),
                0, "", P, S, <<"SELECT">>)
    ELSE Respond(<<"token", r.basic[1]>>, StatusOK, P, S, <<"SELECT">>)

\* Product.List
Product_ListRespond(l, P, S) == Respond(l.list, StatusOK, P, S, l.stmts)
Product_List(ctx, r, P, S) == Product_ListRespond(List(P, S), P, S)

\* Product.Retrieve
Product_RetrieveRespond(g, P, S) ==
    IF g.err = ErrNotFound
    THEN Result(NewRequestError(g.err, StatusNotFound), 0, "", P, S, g.stmts)
    ELSE IF g.err = ErrInvalidID
    THEN Result(NewRequestError(g.err, StatusBadRequest), 0, "", P, S, g.stmts)
    ELSE IF g.err # ErrNil
    THEN Result(Wrap(PlainError(g.err), "looking for product"), 0, "", P, S, g.stmts)
    ELSE Respond(g.p, StatusOK, P, S, g.stmts)
Product_Retrieve(ctx, r, P, S) == Product_RetrieveRespond(Retrieve(P, S, r.id), P, S)

\* Product.Create
Product_CreateRespond(c, S) == Respond(c.p, StatusCreated, c.products, S, c.stmts)
Product_Create(ctx, r, P, S) ==
    IF ctx.claims = <<>>
    THEN Result(NewShutdownError("auth claim is not in context"), 0, "", P, S, <<>>)
    ELSE Product_CreateRespond(Create(P, ctx.claims[1], r.np, r.now, r.newID), S)

\* Product.Update
Product_UpdateRespond(u, P, S) ==
    IF u.err = ErrNotFound
    THEN Result(NewRequestError(u.err, StatusNotFound), 0, "", P, S, u.stmts)
    ELSE IF u.err = ErrInvalidID
    THEN Result(NewRequestError(u.err, StatusBadRequest), 0, "", P, S, u.stmts)
    ELSE IF u.err = ErrForbidden
    THEN Result(NewRequestError(u.err, StatusForbidden), 0, "", P, S, u.stmts)
    ELSE IF u.err # ErrNil
    THEN Result(Wrap(PlainError(u.err), "updating product"), 0, "", P, S, u.stmts)
    ELSE Respond("", StatusNoContent, u.products, S, u.stmts)
Product_Update(ctx, r, P, S) ==
    IF ctx.claims = <<>>
    THEN Result(PlainError("claims is not in context"), 0, "", P, S, <<>>)
    ELSE Product_UpdateRespond(Update(P, S, ctx.claims[1], r.id, r.update, r.now), P, S)

\* Product.Delete
Product_DeleteRespond(d, P, S) ==
    IF d.err = ErrInvalidID
    THEN Result(NewRequestError(d.err, StatusBadRequest), 0, "", P, S, d.stmts)
    ELSE IF d.err # ErrNil
    THEN Result(Wrap(PlainError(d.err), "deleting product"), 0, "", P, S, d.stmts)
    ELSE Respond("", StatusNoContent, d.products, S, d.stmts)
Product_Delete(ctx, r, P, S) == Product_DeleteRespond(Delete(P, r.id), P, S)

\* Product.AddSale
Product_AddSaleRespond(a, P, S) ==
    IF a.err # ErrNil
    THEN Result(Wrap(PlainError(a.err), "adding new sale"), 0, "", P, S, a.stmts)
    ELSE Respond(a.sale, StatusCreated, P, a.sales, a.stmts)
Product_AddSale(ctx, r, P, S) ==
    Product_AddSaleRespond(AddSale(S, r.ns, r.id, r.now, r.newID), P, S)

\* Product.ListSales
Product_ListSalesRespond(l, P, S) ==
    IF l.err # ErrNil
    THEN Result(Wrap(PlainError(l.err), "getting sales list"), 0, "", P, S, l.stmts)
    ELSE Respond(l.list, StatusOK, P, S, l.stmts)
Product_ListSales(ctx, r, P, S) == Product_ListSalesRespond(ListSales(S, r.id), P, S)

\* The handler a route names.
CallHandler(h, ctx, r, P, S) ==
    CASE h = "Check.Health" -> Check_Health(ctx, r, P, S)
      [] h = "Users.Token" -> Users_Token(ctx, r, P, S)
      [] h = "Product.List" -> Product_List(ctx, r, P, S)
      [] h = "Product.Create" -> Product_Create(ctx, r, P, S)
      [] h = "Product.Retrieve" -> Product_Retrieve(ctx, r, P, S)
      [] h = "Product.Update" -> Product_Update(ctx, r, P, S)
      [] h = "Product.Delete" -> Product_Delete(ctx, r, P, S)
      [] h = "Product.AddSale" -> Product_AddSale(ctx, r, P, S)
      [] h = "Product.ListSales" -> Product_ListSales(ctx, r, P, S)

(***************************************************************************)
(* Package mid: the middleware the routes name. A bearer token is <<>> (no *)
(* Authorization header), <<"jwt", subject>> (signed by the service for    *)
(* that subject) or anything else (rejected by the authenticator).         *)
(***************************************************************************)
Tokens == {<<>>, <<"bogus">>} \cup {<<"jwt", c.Subject>> : c \in Principals}

\* Authenticator.ParseClaims: <<claims>> of a valid token, <<>> otherwise
ParseClaims(token) ==
    IF Len(token) = 2 /\ token[1] = "jwt" /\ \E c \in Principals : c.Subject = token[2]
    THEN <<CHOOSE c \in Principals : c.Subject = token[2]>>
    ELSE <<>>

MwAuthenticate == [name |-> "Authenticate", roles |-> {}]
MwHasRole(roles) == [name |-> "HasRole", roles |-> roles]

\* mid.HasRole(roles) around the rest of the chain.
mid_HasRole(roles, ctx, P, S) ==
    IF ctx.authenticated = <<>>
    THEN <<Result(PlainError("claims missing from context"), 0, "", P, S, <<>>)>>
    ELSE IF ~\E role \in roles : HasRole(ctx.authenticated[1], role)
    THEN <<Result(NewRequestError(ErrForbidden, StatusForbidden), 0, "", P, S, <<>>)>>
    ELSE <<>>

\* mid.Authenticate around the rest of the chain: the context with the
\* token's claims stored, or <<>> when the token is rejected.
mid_Authenticate(claims, ctx, r) ==
    IF claims = <<>> THEN <<>>
    ELSE <<[ctx EXCEPT !.claims = IF r.claimsOk THEN claims ELSE <<>>,
                       !.authenticated = claims]>>

RECURSIVE wrapMiddleware(_, _, _, _, _, _, _)
\* The route's middleware mw[i..] around handler h: mid.Authenticate stores the
\* token's claims in the context or ends the request with 401; mid.HasRole
\* ends it with 403 unless the claims hold one of its roles.
wrapMiddleware(mw, i, h, ctx, r, P, S) ==
    IF i > Len(mw) THEN [CallHandler(h, ctx, r, P, S) EXCEPT !.invoked = TRUE]
    ELSE IF mw[i].name = "Authenticate"
    THEN IF mid_Authenticate(ParseClaims(r.token), ctx, r) = <<>>
         THEN Result(NewRequestError("authentication failed", StatusUnauthorized),
                     0, "", P, S, <<>>)
         ELSE wrapMiddleware(mw, i + 1, h,
                             mid_Authenticate(ParseClaims(r.token), ctx, r)[1], r, P, S)
    ELSE IF mid_HasRole(mw[i].roles, ctx, P, S) # <<>>
    THEN mid_HasRole(mw[i].roles, ctx, P, S)[1]
    ELSE wrapMiddleware(mw, i + 1, h, ctx, r, P, S)

\* mid.Errors: an error of the chain is answered with web.RespondError; only a
\* shutdown error is passed on to the caller.
mid_ErrorsRespond(res, e) ==
    [res EXCEPT !.status = e.status, !.body = e.body,
                !.err = IF IsShutdown(res.err) THEN res.err ELSE NilError]
mid_Errors(res) ==
    IF res.err = NilError THEN res ELSE mid_ErrorsRespond(res, RespondError(res.err))

(***************************************************************************)
(* handlers.API: the route table.                                          *)
(***************************************************************************)
Route(method, pattern, handler, mw) ==
    [method |-> method, pattern |-> pattern, handler |-> handler, mw |-> mw]

\* The route table with DELETE /v1/products/{id} registered without
\* mid.HasRole.
API_DeleteUngated ==
    << Route("GET", "/v1/health", "Check.Health", <<>>),
       Route("GET", "/v1/users/token", "Users.Token", <<>>),
       Route("GET", "/v1/products", "Product.List", <<MwAuthenticate>>),
       Route("POST", "/v1/products", "Product.Create", <<MwAuthenticate>>),
       Route("GET", "/v1/products/{id}", "Product.Retrieve", <<MwAuthenticate>>),
       Route("PUT", "/v1/products/{id}", "Product.Update", <<MwAuthenticate>>),
       Route("DELETE", "/v1/products/{id}", "Product.Delete", <<MwAuthenticate>>),
       Route("POST", "/v1/products/{id}/sales", "Product.AddSale",
             <<MwAuthenticate, MwHasRole({"ADMIN"})>>),
       Route("GET", "/v1/products/{id}/sales", "Product.ListSales", <<MwAuthenticate>>) >>

API ==
    << Route("GET", "/v1/health", "Check.Health", <<>>),
       Route("GET", "/v1/users/token", "Users.Token", <<>>),
       Route("GET", "/v1/products", "Product.List", <<MwAuthenticate>>),
       Route("POST", "/v1/products", "Product.Create", <<MwAuthenticate>>),
       Route("GET", "/v1/products/{id}", "Product.Retrieve", <<MwAuthenticate>>),
       Route("PUT", "/v1/products/{id}", "Product.Update", <<MwAuthenticate>>),
       Route("DELETE", "/v1/products/{id}", "Product.Delete",
             <<MwAuthenticate, MwHasRole({RoleAdmin})>>),
       Route("POST", "/v1/products/{id}/sales", "Product.AddSale",
             <<MwAuthenticate, MwHasRole({RoleAdmin})>>),
       Route("GET", "/v1/products/{id}/sales", "Product.ListSales", <<MwAuthenticate>>) >>

\* The route the mux matches.
Mux(method, pattern) ==
    API[CHOOSE i \in 1..Len(API) : API[i].method = method /\ API[i].pattern = pattern]

\* The function App.Handle registers for a route, run on request r: the chain,
\* and whether it ends in App.SignalShutdown.
HandleResult(res) ==
    [status |-> res.status, body |-> res.body, products |-> res.products,
     sales |-> res.sales, stmts |-> res.stmts, invoked |-> res.invoked,
     signal |-> (res.err # NilError /\ IsShutdown(res.err))]
Handle(route, r, P, S) ==
    HandleResult(mid_Errors(wrapMiddleware(route.mw, 1, route.handler,
                 [claims |-> <<>>, authenticated |-> <<>>], r, P, S)))

(***************************************************************************)
(* The requests. Each action serves one request of a route from start to   *)
(* end; its parameters are the sets its inputs are drawn from. uuid.New()  *)
(* is modelled by an identifier that occurs nowhere in the tables.         *)
(***************************************************************************)
NewProducts == [Name : Names, Cost : Costs, Quantity : Quantities]
Opt(V) == {<<>>} \cup {<<v>> : v \in V}
UpdateProducts == [Name : Opt(Names), Cost : Opt(Costs), Quantity : Opt(Quantities)]
NewSales == [Quantity : SaleQuantities, Paid : SalePaid]

NewUUIDs(P, S) == {u \in UUIDs : u \notin DOMAIN P /\ \A s \in S : s.product_id # u}
NewSaleIDs(S) == {n \in 1..MaxSales : n = Cardinality(S) + 1}

TokenOf(subject) == <<"jwt", subject>>
ClaimsOf(subject) == CHOOSE c \in Principals : c.Subject = subject

BaseRequest ==
    [token |-> <<>>, basic |-> <<>>, id |-> "", np |-> <<>>, update |-> <<>>,
     ns |-> <<>>, now |-> 0, newID |-> "", claimsOk |-> TRUE]

\* One request served by the function App.Handle registered for the route.
Serve(route, r) ==
    \E out \in {Handle(route, r, products, sales)} :
        /\ api = "listening"
        /\ ~out.signal
        /\ products' = out.products
        /\ sales' = out.sales
        /\ last' = [op |-> route.handler, status |-> out.status,
                    invoked |-> out.invoked,
                    changed |-> (out.products # products \/ out.sales # sales)]
        /\ UNCHANGED svars

ReqHealth ==
    Serve(Mux("GET", "/v1/health"), BaseRequest)

ReqToken(B) ==
    \E basic \in B :
        Serve(Mux("GET", "/v1/users/token"), [BaseRequest EXCEPT !.basic = basic])

ReqList(T) ==
    \E token \in T :
        Serve(Mux("GET", "/v1/products"), [BaseRequest EXCEPT !.token = token])

ReqCreate(T, NP, N) ==
    \E token \in T, np \in NP, now \in N, newID \in NewUUIDs(products, sales) :
        Serve(Mux("POST", "/v1/products"),
              [BaseRequest EXCEPT !.token = token, !.np = np, !.now = now, !.newID = newID])

ReqRetrieve(T, I) ==
    \E token \in T, id \in I :
        Serve(Mux("GET", "/v1/products/{id}"),
              [BaseRequest EXCEPT !.token = token, !.id = id])

ReqUpdate(T, I, U, N) ==
    \E token \in T, id \in I, update \in U, now \in N :
        Serve(Mux("PUT", "/v1/products/{id}"),
              [BaseRequest EXCEPT !.token = token, !.id = id, !.update = update,
                                  !.now = now])

ReqDelete(T, I) ==
    \E token \in T, id \in I :
        Serve(Mux("DELETE", "/v1/products/{id}"),
              [BaseRequest EXCEPT !.token = token, !.id = id])

ReqAddSale(T, I, NS, N) ==
    \E token \in T, id \in I, ns \in NS, now \in N, newID \in NewSaleIDs(sales) :
        Serve(Mux("POST", "/v1/products/{id}/sales"),
              [BaseRequest EXCEPT !.token = token, !.id = id, !.ns = ns, !.now = now,
                                  !.newID = newID])

ReqListSales(T, I) ==
    \E token \in T, id \in I :
        Serve(Mux("GET", "/v1/products/{id}/sales"),
              [BaseRequest EXCEPT !.token = token, !.id = id])

\* The connections the server can have open at a time.
Workers == 1..MaxWorkers

\* The state when run has started the API service and reached its select:
\* api.ListenAndServe either listens or has failed and sent its error.
Init ==
    /\ products = <<>>
    /\ sales = {}
    /\ last = [op |-> "", status |-> 0, invoked |-> FALSE, changed |-> FALSE]
    /\ shutdown = <<>>
    /\ run = [pc |-> "select", sig |-> "", elapsed |-> 0, result |-> ""]
    /\ api \in {"listening", "failed"}
    /\ serverErrors = IF api = "failed" THEN <<"listen">> ELSE <<>>
    /\ workers = [w \in Workers |-> [pc |-> "idle", req |-> "", sent |-> FALSE,
                                      conn |-> FALSE]]
    /\ notified = 0
    /\ calls = [w \in Workers |-> [pc |-> "idle"]]

(***************************************************************************)
(* Spec: the product operations under authenticated callers: products of   *)
(* two owners, and partial updates that set, per field, nothing or a       *)
(* value.                                                                  *)
(***************************************************************************)
Callers == {TokenOf(c.Subject) : c \in Principals}
Creators == {TokenOf("u1"), TokenOf("adm")}
CreatedProducts == {[Name |-> "a", Cost |-> 1, Quantity |-> 2],
                    [Name |-> "b", Cost |-> 2, Quantity |-> 1]}
SomeUpdates == [Name : {<<>>, <<"b">>}, Cost : {<<>>, <<2>>}, Quantity : {<<>>, <<2>>}]

Next ==
    \/ ReqCreate(Creators, CreatedProducts, {0})
    \/ ReqRetrieve({TokenOf("u1")}, IdStrings)
    \/ ReqUpdate(Callers, IdStrings, SomeUpdates, {MaxTime})
    \/ ReqDelete({TokenOf("adm")}, IdStrings)
    \/ ReqList({TokenOf("u1")})

Spec == Init /\ [][Next]_vars

(***************************************************************************)
(* Requests as the claims speak of them.                                   *)
(***************************************************************************)
UpdateRequest(c, id, update, now) ==
    [BaseRequest EXCEPT !.token = TokenOf(c.Subject), !.id = id, !.update = update,
                        !.now = now]
IdRequest(c, id) == [BaseRequest EXCEPT !.token = TokenOf(c.Subject), !.id = id]
PutProduct(c, id, update, now) ==
    Handle(Mux("PUT", "/v1/products/{id}"), UpdateRequest(c, id, update, now),
           products, sales)
GetProduct(c, id) == Handle(Mux("GET", "/v1/products/{id}"), IdRequest(c, id), products, sales)
DeleteProduct(c, id) ==
    Handle(Mux("DELETE", "/v1/products/{id}"), IdRequest(c, id), products, sales)
IsOwner(c, id) == c.Subject = products[id].user_id
IsAdmin(c) == HasRole(c, RoleAdmin)

\* C1: an update of an existing product by its owner or by an admin never
\* returns Forbidden (the claim as stated; the owner's update is refused).
C1_OwnerOrAdminUpdateNeverForbidden ==
    \A id \in DOMAIN products, c \in Principals :
        (IsOwner(c, id) \/ IsAdmin(c)) =>
            \A update \in SomeUpdates, now \in Times :
                /\ Update(products, sales, c, id, update, now).err # ErrForbidden
                /\ PutProduct(c, id, update, now).status # StatusForbidden

\* C2: an update of a product by a caller who is neither its owner nor an
\* admin returns Forbidden (HTTP 403) and leaves the products table as it was.
C2_NonOwnerUpdateForbidden ==
    \A id \in DOMAIN products, c \in Principals :
        (~IsOwner(c, id) /\ ~IsAdmin(c)) =>
            \A update \in SomeUpdates, now \in Times :
                \A u \in {Update(products, sales, c, id, update, now)},
                   h \in {PutProduct(c, id, update, now)} :
                    /\ u.err = ErrForbidden
                    /\ u.products = products
                    /\ h.status = StatusForbidden
                    /\ h.products = products

\* C2's case: an update has just been refused with 403 while every stored
\* product is owned by the admin, so the refused caller was no owner.
C2_Witness ==
    /\ last.op = "Product.Update" /\ last.status = StatusForbidden
    /\ products # <<>>
    /\ \A id \in DOMAIN products : products[id].user_id = "adm"

\* The row a successful update of product id must leave behind.
ExpectedRow(id, update, now) ==
    [name |-> IF update.Name = <<>> THEN products[id].name ELSE update.Name[1],
     cost |-> IF update.Cost = <<>> THEN products[id].cost ELSE update.Cost[1],
     quantity |-> IF update.Quantity = <<>> THEN products[id].quantity
                  ELSE update.Quantity[1],
     user_id |-> products[id].user_id,
     date_created |-> products[id].date_created,
     date_updated |-> now]

\* C3: after a successful update, the fields present in the update hold the
\* supplied values, absent ones their old values, date_updated is now, the
\* identifier, owner and creation time are unchanged, and no other product row
\* is added, removed or changed.
C3_UpdateFrame ==
    \A id \in IdStrings, c \in Principals, update \in UpdateProducts, now \in Times :
        \A u \in {Update(products, sales, c, id, update, now)} :
            u.err = ErrNil =>
                /\ id \in DOMAIN products
                /\ DOMAIN u.products = DOMAIN products
                /\ u.products[id] = ExpectedRow(id, update, now)
                /\ \A other \in DOMAIN products \ {id} : u.products[other] = products[other]
                /\ \A h \in {PutProduct(c, id, update, now)} :
                    /\ h.status = StatusNoContent
                    /\ h.products = u.products
                    /\ h.sales = sales

\* C3's case: an update has just succeeded and changed a row while another
\* product is stored too.
C3_Witness ==
    /\ last.op = "Product.Update" /\ last.status = StatusNoContent /\ last.changed
    /\ Cardinality(DOMAIN products) = 2

\* C4: for an identifier that is not a well-formed UUID, retrieve, update and
\* delete return InvalidIdentifier (HTTP 400) without issuing any statement to
\* the store, and the tables are unchanged.
C4_MalformedIdNeverReachesStore ==
    \A id \in IdStrings : ~uuidParse(id) =>
        /\ \A g \in {Retrieve(products, sales, id)} :
            g.err = ErrInvalidID /\ g.stmts = <<>>
        /\ \A d \in {Delete(products, id)} :
            d.err = ErrInvalidID /\ d.stmts = <<>> /\ d.products = products
        /\ \A c \in Principals :
            /\ \A h \in {GetProduct(c, id)} :
                h.status = StatusBadRequest /\ h.stmts = <<>>
            /\ IsAdmin(c) =>
                \A h \in {DeleteProduct(c, id)} :
                    /\ h.status = StatusBadRequest /\ h.stmts = <<>>
                    /\ h.products = products /\ h.sales = sales
            /\ \A update \in SomeUpdates, now \in Times :
                \A u \in {Update(products, sales, c, id, update, now)},
                   h \in {PutProduct(c, id, update, now)} :
                    /\ u.err = ErrInvalidID /\ u.stmts = <<>> /\ u.products = products
                    /\ h.status = StatusBadRequest /\ h.stmts = <<>>
                    /\ h.products = products /\ h.sales = sales

\* C4's case: a delete of a malformed identifier has just been answered 400
\* while products are stored.
C4_Witness ==
    /\ last.op = "Product.Delete" /\ last.status = StatusBadRequest
    /\ products # <<>>

\* C5: for a well-formed identifier that matches no product row, retrieve and
\* update return NotFound (HTTP 404), and delete returns success (HTTP 204)
\* and leaves the products table unchanged.
C5_NoMatchingRow ==
    \A id \in IdStrings : (uuidParse(id) /\ id \notin DOMAIN products) =>
        /\ Retrieve(products, sales, id).err = ErrNotFound
        /\ \A d \in {Delete(products, id)} : d.err = ErrNil /\ d.products = products
        /\ \A c \in Principals :
            /\ GetProduct(c, id).status = StatusNotFound
            /\ IsAdmin(c) =>
                \A h \in {DeleteProduct(c, id)} :
                    h.status = StatusNoContent /\ h.products = products
            /\ \A update \in SomeUpdates, now \in Times :
                \A u \in {Update(products, sales, c, id, update, now)},
                   h \in {PutProduct(c, id, update, now)} :
                    /\ u.err = ErrNotFound /\ u.products = products
                    /\ h.status = StatusNotFound /\ h.products = products

\* C5's case: a delete has just been answered 204 without changing a table
\* (its identifier matched no row) while another product is stored.
C5_Witness ==
    /\ last.op = "Product.Delete" /\ last.status = StatusNoContent /\ ~last.changed
    /\ products # <<>>

\* C12: update checks that the identifier is well formed, then that the
\* product exists, then the authorisation: for every caller, also one with
\* neither the admin role nor a product of their own, an update of a
\* well-formed identifier that matches no row returns NotFound, never
\* Forbidden, and an update of a malformed identifier returns
\* InvalidIdentifier.
C12_UpdateCheckOrder ==
    \A c \in Principals, id \in IdStrings \ DOMAIN products, now \in Times :
        \A update \in SomeUpdates :
            \A u \in {Update(products, sales, c, id, update, now)} :
                /\ u.err = IF uuidParse(id) THEN ErrNotFound ELSE ErrInvalidID
                /\ u.err # ErrForbidden
                /\ u.stmts = IF uuidParse(id) THEN <<"SELECT">> ELSE <<>>
                /\ PutProduct(c, id, update, now).status =
                       IF uuidParse(id) THEN StatusNotFound ELSE StatusBadRequest

\* C12's case: an update has just been answered 404 while the only product
\* stored belongs to the admin, so that u1 and u2 own no product.
C12_Witness ==
    /\ last.op = "Product.Update" /\ last.status = StatusNotFound /\ last.invoked
    /\ Cardinality(DOMAIN products) = 1
    /\ \A id \in DOMAIN products : products[id].user_id = "adm"

(***************************************************************************)
(* GateSpec: every route of the table under every bearer token: none, one  *)
(* the authenticator rejects, and a signed one of each principal.          *)
(***************************************************************************)
GateProducts == {[Name |-> "a", Cost |-> 1, Quantity |-> 1]}
GateUpdates == {[Name |-> <<"b">>, Cost |-> <<>>, Quantity |-> <<>>]}
GateSales == {[Quantity |-> 1, Paid |-> 3]}

GateNext ==
    \/ ReqHealth
    \/ ReqToken({<<>>, <<"u1">>, <<"nobody">>})
    \/ ReqList(Tokens)
    \/ ReqCreate(Tokens, GateProducts, {0})
    \/ ReqRetrieve(Tokens, IdStrings)
    \/ ReqUpdate(Tokens, UUIDs, GateUpdates, {MaxTime})
    \/ ReqDelete(Tokens, UUIDs)
    \/ ReqAddSale(Tokens, UUIDs, GateSales, {0})
    \/ ReqListSales(Tokens, UUIDs)

GateSpec == Init /\ [][GateNext]_vars

\* The requests of a route the current state admits, under a bearer token.
GateRequests(route, token) ==
    {[BaseRequest EXCEPT !.token = token, !.id = id, !.np = np, !.update = update,
                         !.ns = ns, !.now = MaxTime, !.newID = newID] :
        id \in UUIDs, np \in GateProducts, update \in GateUpdates, ns \in GateSales,
        newID \in IF route.handler = "Product.Create" THEN NewUUIDs(products, sales)
                  ELSE IF route.handler = "Product.AddSale" THEN NewSaleIDs(sales)
                  ELSE {""}}

\* The routes as the interface table lists them.
OpenRoutes == {<<"GET", "/v1/health">>, <<"GET", "/v1/users/token">>}
AdminRoutes == {<<"DELETE", "/v1/products/{id}">>, <<"POST", "/v1/products/{id}/sales">>}
TokenIsValid(token) == \E c \in Principals : token = TokenOf(c.Subject)
TokenIsAdmin(token) == \E c \in Principals : token = TokenOf(c.Subject) /\ IsAdmin(c)

\* What the gates of a route must make of a request's outcome.
GateOutcome(route, token, out) ==
    IF <<route.method, route.pattern>> \in OpenRoutes
    THEN out.invoked
    ELSE IF ~TokenIsValid(token)
    THEN /\ out.status = StatusUnauthorized
         /\ ~out.invoked
         /\ out.stmts = <<>>
         /\ out.products = products /\ out.sales = sales
    ELSE IF <<route.method, route.pattern>> \in AdminRoutes /\ ~TokenIsAdmin(token)
    THEN /\ out.status = StatusForbidden
         /\ ~out.invoked
         /\ out.stmts = <<>>
         /\ out.products = products /\ out.sales = sales
    ELSE out.invoked

\* C6: on a protected route a request without a valid bearer token is answered
\* 401 and one whose valid token lacks the required role 403, the handler is
\* not invoked and the store is unchanged; an admin token passes both gates;
\* the admin role is required exactly on DELETE /v1/products/{id} and POST
\* /v1/products/{id}/sales, the other product routes pass every valid token,
\* and /v1/health and /v1/users/token pass every request.
C6_RouteGates ==
    \A i \in 1..Len(API), token \in Tokens :
        \A r \in GateRequests(API[i], token) :
            GateOutcome(API[i], token, Handle(API[i], r, products, sales))

\* A non-admin's DELETE of a stored product was refused with 403 and the
\* product is still stored.
C6_Witness ==
    /\ last.op = "Product.Delete"
    /\ last.status = StatusForbidden
    /\ ~last.invoked /\ ~last.changed
    /\ DOMAIN products = UUIDs
    /\ sales # {}

(***************************************************************************)
(* SalesSpec: products and sales together, sales against stored, deleted   *)
(* and never created product identifiers.                                  *)
(***************************************************************************)
SomeProducts == {[Name |-> "a", Cost |-> 1, Quantity |-> 1],
                 [Name |-> "b", Cost |-> 2, Quantity |-> 2]}

SalesNext ==
    \/ ReqCreate({TokenOf("u1")}, SomeProducts, {0})
    \/ ReqAddSale({TokenOf("adm")}, IdStrings, NewSales, {0})
    \/ ReqRetrieve({TokenOf("u1")}, UUIDs)
    \/ ReqListSales({TokenOf("u1")}, UUIDs)
    \/ ReqDelete({TokenOf("adm")}, UUIDs)

SalesSpec == Init /\ [][SalesNext]_vars

RECURSIVE SumOf(_, _)
\* The sum of field col over a set of sale rows.
SumOf(rows, col) ==
    IF rows = {} THEN 0
    ELSE LET r == CHOOSE x \in rows : TRUE IN r[col] + SumOf(rows \ {r}, col)

LinkedSales(id) == {s \in sales : s.product_id = id}

SaleRequest(c, id, ns, now, newID) ==
    [BaseRequest EXCEPT !.token = TokenOf(c.Subject), !.id = id, !.ns = ns, !.now = now,
                        !.newID = newID]

\* C7: after addSale(q, paid) against a stored product, retrieve reports sold
\* larger by q and revenue larger by paid, listSales includes the new sale and
\* the product's quantity (and the products table) is unchanged; and in every
\* reachable state the sold and revenue that retrieve and list report equal
\* the sums of quantity and paid over the sales linked to the product.
C7_SalesAggregates ==
    /\ \A id \in DOMAIN products :
        \A g \in {Retrieve(products, sales, id)} :
            /\ g.err = ErrNil
            /\ g.p.Sold = SumOf(LinkedSales(id), "quantity")
            /\ g.p.Revenue = SumOf(LinkedSales(id), "paid")
            /\ \A ns \in NewSales, now \in Times, newID \in NewSaleIDs(sales) :
                \A h \in {Handle(Mux("POST", "/v1/products/{id}/sales"),
                                 SaleRequest(ClaimsOf("adm"), id, ns, now, newID),
                                 products, sales)} :
                    \A after \in {Retrieve(h.products, h.sales, id)} :
                        /\ h.status = StatusCreated
                        /\ h.products = products
                        /\ after.err = ErrNil
                        /\ after.p.Sold = g.p.Sold + ns.Quantity
                        /\ after.p.Revenue = g.p.Revenue + ns.Paid
                        /\ after.p.Quantity = g.p.Quantity
                        /\ h.body \in ListSales(h.sales, id).list
                        /\ h.body.quantity = ns.Quantity /\ h.body.paid = ns.Paid
    /\ \A p \in List(products, sales).list :
        /\ p.ID \in DOMAIN products
        /\ p.Sold = SumOf(LinkedSales(p.ID), "quantity")
        /\ p.Revenue = SumOf(LinkedSales(p.ID), "paid")
    /\ {p.ID : p \in List(products, sales).list} = DOMAIN products

\* C7's case: a sale has just been added, a stored product has two sales
\* linked to it and another stored product has none.
C7_Witness ==
    /\ last.op = "Product.AddSale" /\ last.status = StatusCreated
    /\ \E id \in DOMAIN products : Cardinality(LinkedSales(id)) = 2
    /\ \E id \in DOMAIN products : LinkedSales(id) = {}

CreateRequest(c, np, now, newID) ==
    [BaseRequest EXCEPT !.token = TokenOf(c.Subject), !.np = np, !.now = now,
                        !.newID = newID]

\* C8: create followed immediately by retrieve of the identifier create
\* returned succeeds and yields sold = 0, revenue = 0 and the name, cost and
\* quantity given to create.
C8_CreateThenRetrieve ==
    \A c \in Principals, np \in NewProducts, now \in Times,
       newID \in NewUUIDs(products, sales) :
        \A h \in {Handle(Mux("POST", "/v1/products"), CreateRequest(c, np, now, newID),
                         products, sales)} :
            /\ h.status = StatusCreated
            /\ \A g \in {Handle(Mux("GET", "/v1/products/{id}"), IdRequest(c, h.body.ID),
                                h.products, h.sales)} :
                /\ g.status = StatusOK
                /\ g.body.ID = h.body.ID
                /\ g.body.Sold = 0 /\ g.body.Revenue = 0
                /\ g.body.Name = np.Name /\ g.body.Cost = np.Cost
                /\ g.body.Quantity = np.Quantity

\* C8's case: a product has just been created while sales are stored for
\* another product.
C8_Witness ==
    /\ last.op = "Product.Create" /\ last.status = StatusCreated
    /\ \E id \in DOMAIN products : LinkedSales(id) # {}
    /\ \E id \in DOMAIN products : LinkedSales(id) = {}

(***************************************************************************)
(* cmd/sales-api: run's select and shutdown sequence, the goroutines that  *)
(* serve the connections, and the signals the OS delivers. A worker's      *)
(* request is one of three kinds, named by the error its chain ends with.  *)
(***************************************************************************)
ShutdownTimeout == 5

SIGINT == "SIGINT"
SIGTERM == "SIGTERM"
SIGSTOP == "SIGSTOP"

\* Capacity of the channel shutdown.
ShutdownCap == 1

RunRequests == {"fault", "plain", "request"}

\* The route and the request of each kind: a create whose context holds no
\* auth.Claims under auth.Key (a shutdown error), an update in the same
\* position (a plain error, answered 500) and a retrieve of a malformed id
\* (a request error, answered 400).
RunRoute(req) ==
    CASE req = "fault" -> Mux("POST", "/v1/products")
      [] req = "plain" -> Mux("PUT", "/v1/products/{id}")
      [] req = "request" -> Mux("GET", "/v1/products/{id}")

RunRequest(req) ==
    CASE req = "fault" -> [BaseRequest EXCEPT !.token = TokenOf("u1"), !.claimsOk = FALSE]
      [] req = "plain" -> [BaseRequest EXCEPT !.token = TokenOf("u1"), !.id = "id1",
                                              !.claimsOk = FALSE]
      [] req = "request" -> [BaseRequest EXCEPT !.token = TokenOf("u1"), !.id = "bad"]

\* The server accepts a connection and starts a goroutine for its request.
Accept(w) ==
    /\ run.pc # "done"
    /\ api = "listening"
    /\ workers[w].pc = "idle"
    /\ \E req \in RunRequests :
           workers' = [workers EXCEPT ![w] = [pc |-> "handling", req |-> req,
                                               sent |-> FALSE, conn |-> TRUE]]
    /\ UNCHANGED <<products, sales, last, shutdown, serverErrors, run, api, notified, calls>>

\* The function App.Handle registered runs the chain; on a shutdown error it
\* goes on to App.SignalShutdown, otherwise the request is over.
RunHandler(w) ==
    /\ run.pc # "done"
    /\ workers[w].pc = "handling"
    /\ \E out \in {Handle(RunRoute(workers[w].req), RunRequest(workers[w].req),
                          products, sales)} :
           /\ products' = out.products
           /\ sales' = out.sales
           /\ last' = [op |-> RunRoute(workers[w].req).handler, status |-> out.status,
                       invoked |-> out.invoked,
                       changed |-> (out.products # products \/ out.sales # sales)]
           /\ workers' = [workers EXCEPT ![w].pc = IF out.signal THEN "signal" ELSE "idle",
                                         ![w].conn = out.signal]
    /\ UNCHANGED <<shutdown, serverErrors, run, api, notified, calls>>

\* App.SignalShutdown: a.shutdown <- syscall.SIGSTOP, which blocks while the
\* channel's buffer is full.
SignalShutdown(w) ==
    /\ run.pc # "done"
    /\ workers[w].pc = "signal"
    /\ Len(shutdown) < ShutdownCap
    /\ shutdown' = Append(shutdown, SIGSTOP)
    /\ workers' = [workers EXCEPT ![w].pc = "idle", ![w].sent = TRUE, ![w].conn = FALSE]
    /\ UNCHANGED <<products, sales, last, serverErrors, run, api, notified, calls>>

\* signal.Notify(shutdown, os.Interrupt, syscall.SIGTERM): the signal package
\* sends without blocking and drops the signal when the buffer is full.
Notify(sig) ==
    /\ run.pc # "done"
    /\ notified < MaxSignals
    /\ notified' = notified + 1
    /\ shutdown' = IF Len(shutdown) < ShutdownCap THEN Append(shutdown, sig) ELSE shutdown
    /\ UNCHANGED <<products, sales, last, serverErrors, run, api, workers, calls>>

\* case err := <-serverErrors
RunServerError ==
    /\ run.pc = "select"
    /\ serverErrors # <<>>
    /\ serverErrors' = Tail(serverErrors)
    /\ run' = [run EXCEPT !.pc = "done", !.result = "listening and serving on"]
    /\ UNCHANGED <<products, sales, last, shutdown, api, workers, notified, calls>>

\* case sig := <-shutdown
RunReceive ==
    /\ run.pc = "select"
    /\ shutdown # <<>>
    /\ shutdown' = Tail(shutdown)
    /\ run' = [run EXCEPT !.pc = "Shutdown", !.sig = Head(shutdown)]
    /\ UNCHANGED <<products, sales, last, serverErrors, api, workers, notified, calls>>

\* api.Shutdown(ctx) begins: it closes the listeners, then waits.
RunShutdown ==
    /\ run.pc = "Shutdown"
    /\ api' = "closed"
    /\ run' = [run EXCEPT !.pc = "waiting"]
    /\ UNCHANGED <<products, sales, last, shutdown, serverErrors, workers, notified, calls>>

\* What run returns after api.Shutdown, and api.Close where called, gave err.
RunResult(err, sig) ==
    IF err # "nil" THEN "shutdown gracefully"
    ELSE IF sig = SIGSTOP THEN "integrity error detected, asking for self shutdown"
    ELSE "nil"

\* api.Close that leaves the connections open.
api_Close_Nothing(W) == W

\* api.Close(): every connection still open is closed.
api_Close(W) == [w \in DOMAIN W |-> [W[w] EXCEPT !.conn = FALSE]]

\* api.Shutdown returns because no connection is open any more: nil, or the
\* error of closing the listeners, after which run calls api.Close.
ShutdownReturns ==
    /\ run.pc = "waiting"
    /\ \A w \in Workers : ~workers[w].conn
    /\ \E lnerr \in {"nil", "close"}, cerr \in {"nil", "close"} :
           /\ lnerr = "nil" => cerr = "nil"
           /\ run' = [run EXCEPT !.pc = "done", !.result = RunResult(cerr, run.sig)]
    /\ workers' = api_Close(workers)
    /\ UNCHANGED <<products, sales, last, shutdown, serverErrors, api, notified, calls>>

\* api.Shutdown returns ctx.Err() at the deadline; run calls api.Close.
ShutdownExpires ==
    /\ run.pc = "waiting"
    /\ run.elapsed = ShutdownTimeout
    /\ \E cerr \in {"nil", "close"} :
           run' = [run EXCEPT !.pc = "done", !.result = RunResult(cerr, run.sig)]
    /\ workers' = api_Close(workers)
    /\ UNCHANGED <<products, sales, last, shutdown, serverErrors, api, notified, calls>>

\* Time passes on ctx, whose deadline is cfg.Web.ShutdownTimeout. It passes
\* the deadline only if api.Shutdown does not return at it.
Tick ==
    /\ run.pc = "waiting"
    /\ run.elapsed <= ShutdownTimeout
    /\ ~ENABLED ShutdownExpires
    /\ run' = [run EXCEPT !.elapsed = @ + 1]
    /\ UNCHANGED <<products, sales, last, shutdown, serverErrors, api, workers, notified, calls>>

RunStep == RunServerError \/ RunReceive \/ RunShutdown \/ ShutdownReturns \/ ShutdownExpires

RunNext ==
    \/ \E w \in Workers : Accept(w)
    \/ \E w \in Workers : RunHandler(w)
    \/ \E w \in Workers : SignalShutdown(w)
    \/ \E sig \in {SIGINT, SIGTERM} : Notify(sig)
    \/ RunStep
    \/ Tick

\* The goroutine of run is scheduled whenever it can take a step, and time
\* passes; a handler may take arbitrarily long.
RunSpec == Init /\ [][RunNext]_vars /\ WF_vars(RunStep) /\ WF_vars(Tick)

\* C9: a request that ends with an integrity fault puts a shutdown signal on
\* the channel, and run then shuts down gracefully and returns an error; a
\* request that ends with any other error puts nothing on the channel. Stated
\* on the final result: only requests that ended with an integrity fault have
\* sent, and when run has returned after a request sent its signal, run went
\* through the shutdown branch and returned an error.
C9_IntegrityFaultShutsDown ==
    /\ \A w \in Workers : workers[w].sent => workers[w].req = "fault"
    /\ (run.pc = "done" /\ \E w \in Workers : workers[w].sent)
           => (run.sig # "" /\ run.result # "nil")

\* C10: once run has received a signal on the channel shutdown, the server
\* stops accepting connections, run waits for the requests in flight for at
\* most the grace period, the connections that remain at its expiry are
\* closed, and run returns.
C10_GracefulShutdown ==
    /\ [](run.pc = "waiting" => run.elapsed <= ShutdownTimeout)
    /\ [](run.pc = "done" /\ run.sig # ""
             => /\ api = "closed"
                /\ run.elapsed <= ShutdownTimeout
                /\ \A w \in Workers : ~workers[w].conn)
    /\ [][api = "closed" => \A w \in Workers : workers'[w].conn => workers[w].conn]_vars
    /\ (run.sig # "" ~> api = "closed")
    /\ (run.sig # "" ~> run.pc = "done")

\* run has returned at the expiry of the grace period while a request was still
\* being handled, and the connection of that request is closed.
C10_Witness ==
    /\ run.pc = "done"
    /\ run.sig = SIGTERM
    /\ run.elapsed = ShutdownTimeout
    /\ \E w \in Workers : workers[w].pc = "handling" /\ ~workers[w].conn

(***************************************************************************)
(* ErrSpec: the product routes with every outcome of the error mapper: a   *)
(* token the authenticator rejects (401), identifiers that are malformed   *)
(* (400) or match no row (404), updates that are refused (403), and an     *)
(* update whose context holds no auth.Claims (an unclassified error).      *)
(***************************************************************************)
MaxWrap == 2

ReqUpdateNoClaims(T, I) ==
    \E token \in T, id \in I :
        Serve(Mux("PUT", "/v1/products/{id}"),
              [BaseRequest EXCEPT !.token = token, !.id = id,
                                  !.update = CHOOSE u \in SomeUpdates : TRUE,
                                  !.claimsOk = FALSE])

ErrTokens == {<<"bogus">>, TokenOf("u1"), TokenOf("adm")}

ErrNext ==
    \/ ReqCreate({TokenOf("u1"), TokenOf("adm")}, CreatedProducts, {0})
    \/ ReqRetrieve(ErrTokens, IdStrings)
    \/ ReqUpdate(ErrTokens, IdStrings, SomeUpdates, {MaxTime})
    \/ ReqUpdateNoClaims(ErrTokens, IdStrings)
    \/ ReqDelete(ErrTokens, IdStrings)

ErrSpec == Init /\ [][ErrNext]_vars

\* The error values a chain can return: a request error, a plain error or a
\* shutdown error, as returned or under up to MaxWrap errors.Wrap.
ErrorTexts == {ErrNotFound, ErrInvalidID, ErrForbidden, "authentication failed",
               "pq: connection refused"}
ErrorStatuses == {StatusBadRequest, StatusUnauthorized, StatusForbidden, StatusNotFound}
RECURSIVE Wrapped(_, _)
Wrapped(E, n) ==
    IF n = 0 THEN E
    ELSE E \cup Wrapped({Wrap(e, msg) : e \in E, msg \in {"updating product", "selecting"}},
                        n - 1)
ErrorValues ==
    Wrapped({NewRequestError(t, st) : t \in ErrorTexts, st \in ErrorStatuses}
            \cup {PlainError(t) : t \in ErrorTexts}
            \cup {NewShutdownError(t) : t \in ErrorTexts}, MaxWrap)

\* The text of the error at the bottom of the chain of wraps.
CauseText(err) == err.text[Len(err.text)]
GenericText == "Internal Server Error"

\* What the client of PUT /v1/products/{id} must receive, from the store.
ExpectedUpdateAnswer(token, id, claimsOk, out) ==
    IF ~TokenIsValid(token)
    THEN out.status = StatusUnauthorized /\ out.body = "authentication failed"
    ELSE IF ~claimsOk
    THEN out.status = StatusInternalServerError /\ out.body = GenericText
    ELSE IF id \in Malformed
    THEN out.status = StatusBadRequest /\ out.body = "id provided was not a valid UUID"
    ELSE IF id \notin DOMAIN products
    THEN out.status = StatusNotFound /\ out.body = "product not found"
    ELSE out.status \in {StatusForbidden, StatusNoContent}
         /\ (out.status = StatusForbidden => out.body = "attempted action is not allowed")

\* C11: the error mapper answers an error whose cause is a request error with
\* that error's status and message, and every other error with status 500 and
\* the generic status text, so that no text of such an error reaches the
\* client; the answers of the update and retrieve routes are those of their
\* errors: 400 for a malformed id, 404 for no row, 403 for a refused update,
\* 401 for a rejected token and the generic 500 otherwise.
C11_ErrorMapper ==
    /\ \A err \in ErrorValues :
           \A e \in {RespondError(err)} :
               IF err.kind = "Error"
               THEN e.status = err.status /\ e.body = CauseText(err)
               ELSE /\ e.status = StatusInternalServerError
                    /\ e.body = GenericText
                    /\ \A i \in 1..Len(err.text) : err.text[i] # e.body
    /\ \A token \in ErrTokens, id \in IdStrings, claimsOk \in BOOLEAN :
           /\ ExpectedUpdateAnswer(token, id, claimsOk,
                  Handle(Mux("PUT", "/v1/products/{id}"),
                         [BaseRequest EXCEPT !.token = token, !.id = id,
                                             !.update = CHOOSE u \in SomeUpdates : TRUE,
                                             !.now = MaxTime, !.claimsOk = claimsOk],
                         products, sales))
           /\ \A g \in {Handle(Mux("GET", "/v1/products/{id}"),
                               [BaseRequest EXCEPT !.token = token, !.id = id],
                               products, sales)} :
                  /\ ~TokenIsValid(token) => g.status = StatusUnauthorized
                  /\ TokenIsValid(token) /\ id \in Malformed
                         => g.status = StatusBadRequest
                            /\ g.body = "id provided was not a valid UUID"
                  /\ TokenIsValid(token) /\ id \in UUIDs \ DOMAIN products
                         => g.status = StatusNotFound /\ g.body = "product not found"

\* An update whose context held no claims has just been answered 500 while
\* products are stored.
C11_Witness ==
    /\ last.op = "Product.Update"
    /\ last.status = StatusInternalServerError
    /\ last.invoked
    /\ products # <<>>

(***************************************************************************)
(* ConcSpec: calls of product.Update and product.Delete by goroutines that *)
(* run at once. Update issues two statements, the SELECT of Retrieve and   *)
(* the UPDATE, and another goroutine's statement can come between them;    *)
(* each statement is atomic. A goroutine makes one call.                   *)
(***************************************************************************)
ConcProducts == {[Name |-> "a", Cost |-> 1, Quantity |-> 1]}
ConcUpdates == {[Name |-> <<"b">>, Cost |-> <<>>, Quantity |-> <<>>],
                [Name |-> <<>>, Cost |-> <<2>>, Quantity |-> <<>>]}
ConcUsers == {ClaimsOf("adm"), ClaimsOf("u2")}

\* The rows the statement WHERE product_id = id affects.
RowsAffected(P, id) == IF id \in DOMAIN P THEN 1 ELSE 0

\* product.Update up to its UPDATE statement: Retrieve, the authorisation
\* check and the merge into the product loaded.
UpdateRead(w) ==
    /\ calls[w].pc = "idle"
    /\ \E user \in ConcUsers, id \in UUIDs, update \in ConcUpdates :
         \E r \in {Retrieve(products, sales, id)} :
           calls' = [calls EXCEPT ![w] =
               IF r.err # ErrNil
               THEN [pc |-> "done", op |-> "Update", id |-> id, update |-> update,
                     err |-> r.err, rows |-> 0]
               ELSE IF UpdateForbidden(user, r.p)
               THEN [pc |-> "done", op |-> "Update", id |-> id, update |-> update,
                     err |-> ErrForbidden, rows |-> 0]
               ELSE [pc |-> "loaded", op |-> "Update", id |-> id, update |-> update,
                     p |-> UpdateMerge(r.p, update, MaxTime)]]
    /\ UNCHANGED <<products, sales, last, shutdown, serverErrors, run, api, workers,
                   notified>>

\* The UPDATE statement of product.Update and its return: the result of
\* ExecContext is dropped and the error is nil.
UpdateWrite(w) ==
    /\ calls[w].pc = "loaded"
    /\ products' = ExecUpdate(products, calls[w].id, calls[w].p.Name, calls[w].p.Cost,
                              calls[w].p.Quantity, calls[w].p.DateUpdated)
    /\ calls' = [calls EXCEPT ![w] =
           [pc |-> "done", op |-> "Update", id |-> calls[w].id,
            update |-> calls[w].update, err |-> ErrNil,
            rows |-> RowsAffected(products, calls[w].id)]]
    /\ UNCHANGED <<sales, last, shutdown, serverErrors, run, api, workers, notified>>

\* product.Delete: one statement.
CallDelete(w) ==
    /\ calls[w].pc = "idle"
    /\ \E id \in UUIDs :
         \E d \in {Delete(products, id)} :
           /\ products' = d.products
           /\ calls' = [calls EXCEPT ![w] =
                  [pc |-> "done", op |-> "Delete", id |-> id, update |-> <<>>,
                   err |-> d.err, rows |-> RowsAffected(products, id)]]
    /\ UNCHANGED <<sales, last, shutdown, serverErrors, run, api, workers, notified>>

ConcNext ==
    \/ ReqCreate({TokenOf("adm")}, ConcProducts, {0})
    \/ \E w \in Workers : UpdateRead(w)
    \/ \E w \in Workers : UpdateWrite(w)
    \/ \E w \in Workers : CallDelete(w)

ConcSpec == Init /\ [][ConcNext]_vars

\* A call of Update that has returned success.
UpdateSucceeded(w) ==
    calls[w].pc = "done" /\ calls[w].op = "Update" /\ calls[w].err = ErrNil

\* No call other than those of w1 and w2 has touched product id.
OnlyCalls(w1, w2, id) ==
    \A w \in Workers \ {w1, w2} : calls[w].pc = "idle" \/ calls[w].id # id

\* C13: when two updates of one product run at once and each sets a different
\* field, then after both have returned success each of the two fields holds
\* the value its update supplied, and an update that returns success has
\* changed a row that still exists.
C13_ConcurrentUpdatesKeepBoth ==
    /\ \A w \in Workers : UpdateSucceeded(w) => calls[w].rows = 1
    /\ \A w1, w2 \in Workers :
           (/\ UpdateSucceeded(w1) /\ UpdateSucceeded(w2)
            /\ calls[w1].id = calls[w2].id
            /\ calls[w1].update.Name # <<>> /\ calls[w2].update.Cost # <<>>
            /\ OnlyCalls(w1, w2, calls[w1].id))
           => /\ calls[w1].id \in DOMAIN products
              /\ products[calls[w1].id].name = calls[w1].update.Name[1]
              /\ products[calls[w1].id].cost = calls[w2].update.Cost[1]

\* A goroutine in App.SignalShutdown whose send can never complete: the
\* buffer of the channel is full and run, the only receiver, has left its
\* select.
BlockedForever(w) ==
    /\ workers[w].pc = "signal"
    /\ Len(shutdown) = ShutdownCap
    /\ run.pc # "select"

\* C14: a request that ends with an integrity fault always finishes: its send
\* on the channel shutdown never blocks forever, however many requests raise
\* integrity faults at once and also when the fault is raised after shutdown
\* has started, so that no such request keeps api.Shutdown from returning
\* before the grace period ends.
C14_SendNeverBlocksForever ==
    /\ \A w \in Workers : ~BlockedForever(w)
    /\ (run.pc = "done" /\ run.sig # "" /\ run.elapsed = ShutdownTimeout)
           => \A w \in Workers : workers[w].pc # "signal"

====
